---------------------------- MODULE Spec2Model ----------------------------
(***************************************************************************)
(* Model of fakelens.cpp: the "lens" side of the lens/body handshake.      *)
(*                                                                         *)
(* The microcontroller is one record (call stack, LENS_ACK output, the SPI *)
(* registers, and an event log kept for stating properties).  The program  *)
(* is sequential and deterministic, so every function is an operator that  *)
(* maps the machine to the machine after ONE statement of that function;   *)
(* frame labels are the line numbers of fakelens.cpp.  A busy-wait loop    *)
(* whose condition still holds leaves the machine unchanged.               *)
(*                                                                         *)
(* The body (the peer) is the environment: it drives SLEEP and BODY_ACK    *)
(* and clocks the SPI bus.                                                 *)
(***************************************************************************)
EXTENDS Integers, Sequences, FiniteSets, TLC

VARIABLES
    lens,       \* the microcontroller running main()
    lens2,      \* a second run of the same program (two-run comparison only)
    BODY_ACK,   \* level of the body's acknowledgment line
    SLEEP,      \* level of the power-sense line
    rx          \* bytes the cooperating body has clocked out of the lens

vars == <<lens, lens2, BODY_ACK, SLEEP, rx>>

---------------------------------------------------------------------------
(* Bounds of the model.                                                    *)

\* Longest frame the frame harness passes to read/writeBytesChecksum.
MaxLen == 3

\* Byte values the body clocks in, and payload bytes the harness passes.
ByteVals == {0, 1, 255}

---------------------------------------------------------------------------
(* Machine: frames, call and return, the event log.                        *)

Levels == {0, 1}

\* uint8 arithmetic (typedef.h: 8-bit unsigned).
U8(x) == x % 256

SPCR_CONFIG == {"SPE", "DORD", "CPOL", "CPHA"}

Frame(fn, lbl) ==
    [fn |-> fn, lbl |-> lbl, ph |-> 0, nBytes |-> 0, i |-> 0,
     checksum |-> 0, values |-> <<>>, value |-> 0]

NoFrame == [fn |-> "none", nBytes |-> 0, values |-> <<>>, log |-> <<>>]

Top(m) == m.stack[Len(m.stack)]

Goto(m, l) ==
    [m EXCEPT !.stack[Len(m.stack)].lbl = l, !.stack[Len(m.stack)].ph = 0]

GotoPh(m, l, p) ==
    [m EXCEPT !.stack[Len(m.stack)].lbl = l, !.stack[Len(m.stack)].ph = p]

\* A call: the caller resumes at label l, phase p; the callee's frame is pushed.
CallPh(m, l, p, f) ==
    LET c == GotoPh(m, l, p) IN [c EXCEPT !.stack = Append(@, f)]

Call(m, l, f) == CallPh(m, l, 0, f)

Return(m) == [m EXCEPT !.stack = SubSeq(@, 1, Len(@) - 1)]

Emit(m, e) == [m EXCEPT !.log = Append(@, e)]

\* Call of a framed function: a new log segment starts.
CallFrame(m, l, f) ==
    LET c == Call(m, l, f) IN [c EXCEPT !.log = <<>>, !.last = NoFrame]

\* Return of a framed function: its arguments and its log are kept in last.
ReturnFrame(m) ==
    LET f == Top(m) IN
    [Return(m) EXCEPT !.log = <<>>,
                      !.last = [fn |-> f.fn, nBytes |-> f.nBytes,
                                values |-> f.values, log |-> m.log]]

digitalWrite_LENS_ACK(m, v) == Emit([m EXCEPT !.LENS_ACK = v], <<"dw", v>>)

---------------------------------------------------------------------------
(* SignalLine: the four waits on BODY_ACK.                                 *)

\* Mutant: a level wait, the line is never required to be seen high first.
waitBodyFall_LevelOnly(m, ack) ==
    LET f == Top(m) IN
    CASE f.lbl = 37 -> Goto(m, 38)
      [] f.lbl = 38 -> IF ack = 0 THEN Return(Emit(m, <<"see", 0>>)) ELSE m
      [] OTHER -> m

waitBodyFall(m, ack) ==
    LET f == Top(m) IN
    CASE f.lbl = 37 -> IF ack = 1 THEN Goto(Emit(m, <<"see", 1>>), 38) ELSE m
      [] f.lbl = 38 -> IF ack = 0 THEN Return(Emit(m, <<"see", 0>>)) ELSE m
      [] OTHER -> m

\* Mutant: a level wait, the line is never required to be seen low first.
waitBodyRise_LevelOnly(m, ack) ==
    LET f == Top(m) IN
    CASE f.lbl = 44 -> Goto(m, 45)
      [] f.lbl = 45 -> IF ack = 1 THEN Return(Emit(m, <<"see", 1>>)) ELSE m
      [] OTHER -> m

waitBodyRise(m, ack) ==
    LET f == Top(m) IN
    CASE f.lbl = 44 -> IF ack = 0 THEN Goto(Emit(m, <<"see", 0>>), 45) ELSE m
      [] f.lbl = 45 -> IF ack = 1 THEN Return(Emit(m, <<"see", 1>>)) ELSE m
      [] OTHER -> m

\* Mutant: a falling-edge wait, the line must be seen high before low.
waitBodyLow_Edge(m, ack) ==
    LET f == Top(m) IN
    CASE f.lbl = 51 -> IF ack = 1 THEN Goto(m, 52) ELSE m
      [] f.lbl = 52 -> IF ack = 0 THEN Return(Emit(m, <<"see", 0>>)) ELSE m
      [] OTHER -> m

\* Mutant: the poll gives up (a timeout) when the line is still high.
waitBodyLow_Timeout(m, ack) ==
    LET f == Top(m) IN
    CASE f.lbl = 51 -> Goto(m, 52)
      [] f.lbl = 52 -> Return(Emit(m, <<"see", ack>>))
      [] OTHER -> m

waitBodyLow(m, ack) ==
    LET f == Top(m) IN
    CASE f.lbl = 51 -> Goto(m, 52)
      [] f.lbl = 52 -> IF ack = 0 THEN Return(Emit(m, <<"see", 0>>)) ELSE m
      [] OTHER -> m

\* Mutant: the loop condition of line 59 without its negation.
waitBodyHigh_Inverted(m, ack) ==
    LET f == Top(m) IN
    CASE f.lbl = 58 -> Goto(m, 59)
      [] f.lbl = 59 -> IF ack = 0 THEN Return(Emit(m, <<"see", 0>>)) ELSE m
      [] OTHER -> m

waitBodyHigh(m, ack) ==
    LET f == Top(m) IN
    CASE f.lbl = 58 -> Goto(m, 59)
      [] f.lbl = 59 -> IF ack = 1 THEN Return(Emit(m, <<"see", 1>>)) ELSE m
      [] OTHER -> m

---------------------------------------------------------------------------
(* ByteTransport: SPI slave, one byte at a time.                           *)

\* An access to SPDR clears the transfer-complete flag (comments at lines
\* 69 and 92 of the source).
WriteSPDR(m, v) == [m EXCEPT !.SPDR = v, !.SPIF = FALSE]

readByte(m) ==
    LET f == Top(m) IN
    CASE f.lbl = 67 -> Goto([m EXCEPT !.MISO = "INPUT"], 70)
      [] f.lbl = 70 -> Goto(WriteSPDR(m, 0), 73)
      [] f.lbl = 73 -> IF m.SPIF THEN Goto(m, 75) ELSE m
      [] f.lbl = 75 -> Return(Emit([m EXCEPT !.ret = m.SPDR, !.SPIF = FALSE],
                                   <<"rd", m.SPDR>>))
      [] OTHER -> m

\* Mutant: line 94 writes 0x00 back instead of 0xFF.
writeByte_ZeroSentinel(m) ==
    LET f == Top(m) IN
    CASE f.lbl = 83 -> Goto(Emit(WriteSPDR(m, f.value), <<"wr", f.value>>), 87)
      [] f.lbl = 87 -> Goto([m EXCEPT !.MISO = "OUTPUT"], 90)
      [] f.lbl = 90 -> IF m.SPIF THEN Goto(m, 94) ELSE m
      [] f.lbl = 94 -> Return(WriteSPDR(m, 0))
      [] OTHER -> m

\* Mutant: the data pin is never switched to output (line 87 missing).
writeByte_NoOutput(m) ==
    LET f == Top(m) IN
    CASE f.lbl = 83 -> Goto(Emit(WriteSPDR(m, f.value), <<"wr", f.value>>), 87)
      [] f.lbl = 87 -> Goto(m, 90)
      [] f.lbl = 90 -> IF m.SPIF THEN Goto(m, 94) ELSE m
      [] f.lbl = 94 -> Return(WriteSPDR(m, 255))
      [] OTHER -> m

writeByte(m) ==
    LET f == Top(m) IN
    CASE f.lbl = 83 -> Goto(Emit(WriteSPDR(m, f.value), <<"wr", f.value>>), 87)
      [] f.lbl = 87 -> Goto([m EXCEPT !.MISO = "OUTPUT"], 90)
      [] f.lbl = 90 -> IF m.SPIF THEN Goto(m, 94) ELSE m
      [] f.lbl = 94 -> Return(WriteSPDR(m, 255))
      [] OTHER -> m

\* The body clocks eight bits: the shift register is exchanged.  Only an
\* enabled SPI unit takes part.
SPI_Transfer(m, b) ==
    IF "SPE" \in m.SPCR THEN [m EXCEPT !.SPDR = b, !.SPIF = TRUE] ELSE m

\* What the body samples on the data line during that transfer.
SPI_Out(m) == IF m.MISO = "OUTPUT" THEN m.SPDR ELSE -1

---------------------------------------------------------------------------
(* FramedChannel.                                                          *)

\* checksum += b on a uint8 accumulator.
AddChecksum(checksum, b) == U8(checksum + b)

\* Mutant: the per-byte loop also takes the last byte.
ReadLoopCond_AllBytes(i, nBytes) == i < nBytes

\* Mutant: the bound computed in 8 bits, so that it wraps to 255 for nBytes = 0.
ReadLoopCond_Wrap(i, nBytes) == i < U8(nBytes - 1)

\* i < nBytes - 1: both operands are promoted to int, so nBytes - 1 is -1
\* (not 255) when nBytes is 0.
ReadLoopCond(i, nBytes) == i < nBytes - 1

\* Mutant: the payload loop stops one byte early.
WriteLoopCond_Short(i, nBytes) == i < nBytes - 1

WriteLoopCond(i, nBytes) == i < nBytes

\* The byte writeBytesChecksum sends first (line 133).
LengthByte(f) == f.nBytes

\* What line 121 hands to writeByte.
ChecksumReply(f) == f.checksum

\* Mutant: the length byte is added into the total with the first payload byte.
WriteRunningTotal_WithLength(f) ==
    U8(f.checksum + f.values[f.i + 1] + (IF f.i = 0 THEN f.nBytes ELSE 0))

\* Line 141: the running total after payload byte i went out.
WriteRunningTotal(f) == AddChecksum(f.checksum, f.values[f.i + 1])

\* Mutant: ready is raised after the last byte as after the others.
LastByteAck_Ready(m) ==
    Goto(digitalWrite_LENS_ACK(digitalWrite_LENS_ACK(m, 0), 1), 118)

\* Mutant: the frame is given up (ready left high, no reply) on a non-zero sum.
LastByteAck_Verify(m) ==
    IF Top(m).checksum = 0
    THEN Goto(digitalWrite_LENS_ACK(m, 0), 118)
    ELSE Goto(digitalWrite_LENS_ACK(m, 1), 122)

\* After the last byte (lines 112-113): working, and no ready.
LastByteAck(m) == Goto(digitalWrite_LENS_ACK(m, 0), 118)

readBytesChecksum(m) ==
    LET f == Top(m) IN
    CASE f.lbl = 102 ->
            GotoPh([m EXCEPT !.stack[Len(m.stack)].checksum = 0], 104, 0)
      [] f.lbl = 104 /\ f.ph = 0 ->
            GotoPh([m EXCEPT !.stack[Len(m.stack)].i = 0], 104, 1)
      [] f.lbl = 104 /\ f.ph = 1 ->
            IF ReadLoopCond(f.i, f.nBytes) THEN Goto(m, 105) ELSE Goto(m, 111)
      [] f.lbl = 104 /\ f.ph = 2 ->
            GotoPh([m EXCEPT !.stack[Len(m.stack)].i = U8(f.i + 1)], 104, 1)
      [] f.lbl = 105 /\ f.ph = 0 -> CallPh(m, 105, 1, Frame("readByte", 67))
      [] f.lbl = 105 /\ f.ph = 1 ->
            Goto([m EXCEPT !.stack[Len(m.stack)].checksum =
                               AddChecksum(f.checksum, m.ret)], 106)
      [] f.lbl = 106 -> Goto(digitalWrite_LENS_ACK(m, 0), 107)
      [] f.lbl = 107 -> GotoPh(digitalWrite_LENS_ACK(m, 1), 104, 2)
      [] f.lbl = 111 /\ f.ph = 0 -> CallPh(m, 111, 1, Frame("readByte", 67))
      [] f.lbl = 111 /\ f.ph = 1 ->
            Goto([m EXCEPT !.stack[Len(m.stack)].checksum =
                               AddChecksum(f.checksum, m.ret)], 112)
      [] f.lbl = 112 -> LastByteAck(m)
      [] f.lbl = 118 -> Call(m, 119, Frame("waitBodyFall", 37))
      [] f.lbl = 119 -> Goto(digitalWrite_LENS_ACK(m, 1), 120)
      [] f.lbl = 120 -> Call(m, 121, Frame("waitBodyHigh", 58))
      [] f.lbl = 121 ->
            Call(m, 122, [Frame("writeByte", 83) EXCEPT !.value = ChecksumReply(f)])
      [] f.lbl = 122 -> ReturnFrame(m)
      [] OTHER -> m

writeBytesChecksum(m) ==
    LET f == Top(m) IN
    CASE f.lbl = 127 ->
            Goto([m EXCEPT !.stack[Len(m.stack)].checksum = 0], 130)
      [] f.lbl = 130 -> Call(m, 131, Frame("waitBodyFall", 37))
      [] f.lbl = 131 -> Goto(digitalWrite_LENS_ACK(m, 0), 132)
      [] f.lbl = 132 -> Goto(digitalWrite_LENS_ACK(m, 1), 133)
      [] f.lbl = 133 ->
            Call(m, 136, [Frame("writeByte", 83) EXCEPT !.value = LengthByte(f)])
      [] f.lbl = 136 /\ f.ph = 0 ->
            GotoPh([m EXCEPT !.stack[Len(m.stack)].i = 0], 136, 1)
      [] f.lbl = 136 /\ f.ph = 1 ->
            IF WriteLoopCond(f.i, f.nBytes) THEN Goto(m, 137) ELSE Goto(m, 145)
      [] f.lbl = 136 /\ f.ph = 2 ->
            GotoPh([m EXCEPT !.stack[Len(m.stack)].i = U8(f.i + 1)], 136, 1)
      [] f.lbl = 137 -> Call(m, 138, Frame("waitBodyLow", 51))
      [] f.lbl = 138 -> Goto(digitalWrite_LENS_ACK(m, 0), 139)
      [] f.lbl = 139 -> Goto(digitalWrite_LENS_ACK(m, 1), 140)
      [] f.lbl = 140 ->
            Call(m, 141, [Frame("writeByte", 83) EXCEPT !.value = f.values[f.i + 1]])
      [] f.lbl = 141 ->
            GotoPh([m EXCEPT !.stack[Len(m.stack)].checksum = WriteRunningTotal(f)],
                   136, 2)
      [] f.lbl = 145 -> Call(m, 146, Frame("waitBodyLow", 51))
      [] f.lbl = 146 -> Goto(digitalWrite_LENS_ACK(m, 0), 147)
      [] f.lbl = 147 -> Goto(digitalWrite_LENS_ACK(m, 1), 148)
      [] f.lbl = 148 ->
            Call(m, 149, [Frame("writeByte", 83) EXCEPT !.value = f.checksum])
      [] f.lbl = 149 -> ReturnFrame(m)
      [] OTHER -> m

ReadFrame(n) == [Frame("readBytesChecksum", 102) EXCEPT !.nBytes = n]

WriteFrame(n, values) ==
    [Frame("writeBytesChecksum", 127) EXCEPT !.nBytes = n, !.values = values]

\* uint8 values[31] with 23 initialisers: the rest are zero.
standbyValues == [k \in 1..31 |-> 0]

standbyPacket(m) ==
    LET f == Top(m) IN
    CASE f.lbl = 153 -> CallFrame(m, 158, ReadFrame(4))
      [] f.lbl = 158 -> CallFrame(m, 159, WriteFrame(31, standbyValues))
      [] f.lbl = 159 -> Return(m)
      [] OTHER -> m

---------------------------------------------------------------------------
(* SessionScript: main() as the ordered list of its statements.            *)

\* Mutant: 0x0a mistyped as 0x00.
sendBytes_Typo == <<0, 0, 16, 196, 9>>

sendBytes == <<0, 10, 16, 196, 9>>

\* Mutant: the second byte 0x00 mistyped as 0x01.
sendBytes2_Typo == <<0, 1, 0, 1, 16, 0, 0, 65, 65, 65, 50, 52, 51, 56, 52, 49,
                     0, 0, 0, 1, 17>>

sendBytes2 == <<0, 0, 0, 1, 16, 0, 0, 65, 65, 65, 50, 52, 51, 56, 52, 49,
                0, 0, 0, 1, 17>>

St(line, op, fn, v, values) ==
    [line |-> line, op |-> op, fn |-> fn, v |-> v, values |-> values]

\* Mutant: main only ever drives the ready line low.
Dw_Low(line, v) == St(line, "digitalWrite", "", 0, <<>>)
Dw(line, v)       == St(line, "digitalWrite", "", v, <<>>)
\* Mutant: main pauses where it should wait for the acknowledgment line.
Wait_Pause(line, fn) == St(line, "delay", "", 0, <<>>)
Wait(line, fn)    == St(line, "wait", fn, 0, <<>>)
Delay(line)       == St(line, "delay", "", 0, <<>>)
Rd(line, n)       == St(line, "readBytesChecksum", "", n, <<>>)
Wr(line, n, vals) == St(line, "writeBytesChecksum", "", n, vals)

Script ==
    << St(163, "init", "", 0, <<>>),
       St(164, "setup", "", 0, <<>>),
       St(167, "pollSleep", "", 0, <<>>),
       Wait(170, "waitBodyHigh"),
       Dw(173, 1), Delay(174), Dw(175, 0),
       Wait(178, "waitBodyRise"),
       Dw(181, 1),
       Rd(183, 4),
       Wait(185, "waitBodyFall"), Dw(186, 0),
       Wait(187, "waitBodyRise"), Dw(188, 1),
       Delay(190),
       Dw(192, 0), Wait(193, "waitBodyLow"),
       Dw(194, 1), Wait(195, "waitBodyRise"),
       St(197, "writeByte", "", 0, <<>>),
       Wait(199, "waitBodyLow"), Dw(200, 0),
       Wait(201, "waitBodyRise"), Dw(202, 1),
       Rd(204, 4),
       Wr(207, 5, sendBytes),
       Wait(209, "waitBodyLow"), Dw(210, 0),
       Wait(211, "waitBodyHigh"), Dw(212, 1),
       Rd(214, 4),
       Wait(216, "waitBodyLow"), Dw(217, 0),
       Wait(218, "waitBodyHigh"), Dw(219, 1),
       St(223, "SPCR", "", 0, <<>>),
       St(224, "SPCR", "", 1, <<>>),
       Rd(225, 4),
       Wr(235, 21, sendBytes2),
       Wait(237, "waitBodyLow"), Dw(238, 0),
       Wait(239, "waitBodyHigh"), Dw(240, 1),
       Rd(242, 4),
       Wr(245, 2, sendBytes2),
       Wait(247, "waitBodyLow"), Dw(248, 0),
       Wait(249, "waitBodyHigh"), Dw(250, 1),
       Rd(252, 4),
       Wait(254, "waitBodyLow"), Dw(255, 0),
       Delay(256), Dw(257, 1),
       St(259, "standby", "", 0, <<>>) >>

Entry(fn) ==
    CASE fn = "waitBodyFall" -> 37
      [] fn = "waitBodyRise" -> 44
      [] fn = "waitBodyLow"  -> 51
      [] fn = "waitBodyHigh" -> 58

\* Mutant: line 27 without DORD, so that lines 27 and 224 disagree.
setup_MsbFirst(m) ==
    [m EXCEPT !.LENS_ACK = 0, !.SPCR = {"SPE", "CPOL", "CPHA"}, !.MISO = "INPUT"]

\* setup(): the pins and the SPI configuration.
setup(m) == [m EXCEPT !.LENS_ACK = 0, !.SPCR = SPCR_CONFIG, !.MISO = "INPUT"]

\* Mutant: the call in the terminal loop is not commented out.
Standby_Packet(m) == Call(m, Top(m).lbl, Frame("standbyPacket", 153))

\* The terminal loop, while(1){ //standbyPacket(); }: its body is empty.
Standby(m) == m

main(m, sleep) ==
    LET k == Top(m).lbl
        s == Script[k]
    IN
    CASE s.op = "init" -> Goto(m, k + 1)
      [] s.op = "setup" -> Goto(setup(m), k + 1)
      [] s.op = "pollSleep" ->
            IF sleep # 0 THEN Goto(Emit(m, <<"pwr", 1>>), k + 1) ELSE m
      [] s.op = "wait" -> Call(m, k + 1, Frame(s.fn, Entry(s.fn)))
      [] s.op = "digitalWrite" -> Goto(digitalWrite_LENS_ACK(m, s.v), k + 1)
      [] s.op = "delay" -> Goto(m, k + 1)
      [] s.op = "writeByte" ->
            Call(m, k + 1, [Frame("writeByte", 83) EXCEPT !.value = s.v])
      [] s.op = "readBytesChecksum" -> CallFrame(m, k + 1, ReadFrame(s.v))
      [] s.op = "writeBytesChecksum" ->
            CallFrame(m, k + 1, WriteFrame(s.v, s.values))
      [] s.op = "SPCR" ->
            Goto([m EXCEPT !.SPCR = IF s.v = 0 THEN {} ELSE SPCR_CONFIG], k + 1)
      [] s.op = "standby" -> Standby(m)
      [] OTHER -> m

\* One statement of whatever function is executing.
Step(m, ack, sleep) ==
    LET fn == Top(m).fn IN
    CASE fn = "main" -> main(m, sleep)
      [] fn = "readBytesChecksum" -> readBytesChecksum(m)
      [] fn = "writeBytesChecksum" -> writeBytesChecksum(m)
      [] fn = "standbyPacket" -> standbyPacket(m)
      [] fn = "readByte" -> readByte(m)
      [] fn = "writeByte" -> writeByte(m)
      [] fn = "waitBodyFall" -> waitBodyFall(m, ack)
      [] fn = "waitBodyRise" -> waitBodyRise(m, ack)
      [] fn = "waitBodyLow" -> waitBodyLow(m, ack)
      [] fn = "waitBodyHigh" -> waitBodyHigh(m, ack)
      [] OTHER -> m

\* The machine at reset, about to run the function of frame f.
Boot(f) ==
    [stack |-> <<f>>, LENS_ACK |-> 0, SPDR |-> 0, SPIF |-> FALSE, SPCR |-> {},
     MISO |-> "INPUT", ret |-> 0, log |-> <<>>, last |-> NoFrame]

---------------------------------------------------------------------------
(* The session against an unconstrained body.                              *)

Init ==
    /\ lens = Boot(Frame("main", 1))
    /\ lens2 = lens
    /\ BODY_ACK \in Levels
    /\ SLEEP \in Levels
    /\ rx = <<>>

Running(fn) == Top(lens).fn = fn

\* A call of a framed function starts a new frame on the wire.
FrameCall(m, n) ==
    /\ Len(n.stack) > Len(m.stack)
    /\ Top(n).fn \in {"readBytesChecksum", "writeBytesChecksum"}

Exec ==
    /\ lens' = Step(lens, BODY_ACK, SLEEP)
    /\ rx' = IF FrameCall(lens, lens') THEN <<>> ELSE rx
    /\ UNCHANGED <<lens2, BODY_ACK, SLEEP>>

Do_main               == Running("main") /\ Exec
Do_readBytesChecksum  == Running("readBytesChecksum") /\ Exec
Do_writeBytesChecksum == Running("writeBytesChecksum") /\ Exec
Do_readByte           == Running("readByte") /\ Exec
Do_writeByte          == Running("writeByte") /\ Exec
Do_waitBodyFall       == Running("waitBodyFall") /\ Exec
Do_waitBodyRise       == Running("waitBodyRise") /\ Exec
Do_waitBodyLow        == Running("waitBodyLow") /\ Exec
Do_waitBodyHigh       == Running("waitBodyHigh") /\ Exec

LensStep ==
    \/ Do_main
    \/ Do_readBytesChecksum
    \/ Do_writeBytesChecksum
    \/ Do_readByte
    \/ Do_writeByte
    \/ Do_waitBodyFall
    \/ Do_waitBodyRise
    \/ Do_waitBodyLow
    \/ Do_waitBodyHigh

\* The body changes a line, or clocks a byte, whenever it likes.
BodyAck == \E v \in Levels : BODY_ACK' = v /\ v # BODY_ACK /\ UNCHANGED <<lens, lens2, SLEEP, rx>>

BodySleep == \E v \in Levels : SLEEP' = v /\ v # SLEEP /\ UNCHANGED <<lens, lens2, BODY_ACK, rx>>

BodyClock ==
    \E b \in ByteVals :
        /\ lens' = SPI_Transfer(lens, b)
        /\ UNCHANGED <<lens2, BODY_ACK, SLEEP, rx>>

Next == LensStep \/ BodyAck \/ BodySleep \/ BodyClock

Spec == Init /\ [][Next]_vars

---------------------------------------------------------------------------
(* Frame harness: read/writeBytesChecksum called with any arguments,       *)
(* again and again, against an unconstrained body.                         *)

Payloads(n) == [1..n -> ByteVals]

InitFrame ==
    /\ lens = setup(Boot(Frame("harness", 0)))
    /\ lens2 = lens
    /\ BODY_ACK \in Levels
    /\ SLEEP = 1
    /\ rx = <<>>

HarnessRead ==
    \E n \in 0..MaxLen :
        /\ Running("harness")
        /\ lens' = CallFrame(lens, 0, ReadFrame(n))
        /\ rx' = <<>>
        /\ UNCHANGED <<lens2, BODY_ACK, SLEEP>>

HarnessWrite ==
    \E n \in 0..MaxLen : \E P \in Payloads(n) :
        /\ Running("harness")
        /\ lens' = CallFrame(lens, 0, WriteFrame(n, P))
        /\ rx' = <<>>
        /\ UNCHANGED <<lens2, BODY_ACK, SLEEP>>

FrameLens ==
    \/ Do_readBytesChecksum
    \/ Do_writeBytesChecksum
    \/ Do_readByte
    \/ Do_writeByte
    \/ Do_waitBodyFall
    \/ Do_waitBodyLow
    \/ Do_waitBodyHigh

NextFrame == HarnessRead \/ HarnessWrite \/ FrameLens \/ BodyAck \/ BodyClock

SpecFrame == InitFrame /\ [][NextFrame]_vars

---------------------------------------------------------------------------
(* The cooperating body: the complementary (master) side.  It gives each   *)
(* wait of the lens the level it waits for and clocks one byte for each    *)
(* transfer the lens has armed.                                            *)

\* The level the busy-wait at the top of the stack is waiting for, or -1.
Awaited(m) ==
    LET f == Top(m) IN
    CASE f.fn = "waitBodyFall" /\ f.lbl = 37 -> 1
      [] f.fn = "waitBodyFall" /\ f.lbl = 38 -> 0
      [] f.fn = "waitBodyRise" /\ f.lbl = 44 -> 0
      [] f.fn = "waitBodyRise" /\ f.lbl = 45 -> 1
      [] f.fn = "waitBodyLow"  /\ f.lbl = 52 -> 0
      [] f.fn = "waitBodyHigh" /\ f.lbl = 59 -> 1
      [] OTHER -> -1

\* The lens spins on SPIF (line 73 or line 90).
AwaitsClock(m) ==
    LET f == Top(m) IN
    /\ \/ f.fn = "readByte" /\ f.lbl = 73
       \/ f.fn = "writeByte" /\ f.lbl = 90
    /\ ~m.SPIF

CoopAck ==
    /\ Awaited(lens) \in Levels
    /\ BODY_ACK # Awaited(lens)
    /\ BODY_ACK' = Awaited(lens)
    /\ UNCHANGED <<lens, lens2, SLEEP, rx>>

CoopSleep ==
    /\ Running("main")
    /\ Script[Top(lens).lbl].op = "pollSleep"
    /\ SLEEP = 0
    /\ SLEEP' = 1
    /\ UNCHANGED <<lens, lens2, BODY_ACK, rx>>

CoopClock ==
    \E b \in ByteVals :
        /\ AwaitsClock(lens)
        /\ lens' = SPI_Transfer(lens, b)
        /\ rx' = IF lens.MISO = "OUTPUT" THEN Append(rx, SPI_Out(lens)) ELSE rx
        /\ UNCHANGED <<lens2, BODY_ACK, SLEEP>>

CoopBody == CoopAck \/ CoopSleep \/ CoopClock

NextCoop == LensStep \/ CoopBody

SpecCoop ==
    Init /\ [][NextCoop]_vars /\ WF_vars(LensStep) /\ WF_vars(CoopBody)

NextFrameCoop ==
    HarnessRead \/ HarnessWrite \/ FrameLens \/ CoopAck \/ CoopClock

SpecFrameCoop == InitFrame /\ [][NextFrameCoop]_vars

---------------------------------------------------------------------------
(* Two runs of the session side by side: the same line levels at the same  *)
(* steps and a byte clocked at the same steps; only the byte values differ *)
(* (the first run always receives 0x00).                                   *)

PairLens ==
    /\ lens' = Step(lens, BODY_ACK, SLEEP)
    /\ lens2' = Step(lens2, BODY_ACK, SLEEP)
    /\ UNCHANGED <<BODY_ACK, SLEEP, rx>>

PairClock ==
    \E b \in ByteVals :
        /\ lens' = SPI_Transfer(lens, 0)
        /\ lens2' = SPI_Transfer(lens2, b)
        /\ UNCHANGED <<BODY_ACK, SLEEP, rx>>

NextPair == PairLens \/ PairClock \/ BodyAck \/ BodySleep

SpecPair == Init /\ [][NextPair]_vars

---------------------------------------------------------------------------
(* Single bytes: readByte() and writeByte(v) called on their own, for any  *)
(* v, while the body clocks whenever it likes.                             *)

HarnessWriteByte ==
    \E v \in 0..255 :
        /\ Running("harness")
        /\ lens' = Call([lens EXCEPT !.log = <<>>], 0,
                        [Frame("writeByte", 83) EXCEPT !.value = v])
        /\ UNCHANGED <<lens2, BODY_ACK, SLEEP, rx>>

HarnessReadByte ==
    /\ Running("harness")
    /\ lens' = Call([lens EXCEPT !.log = <<>>], 0, Frame("readByte", 67))
    /\ UNCHANGED <<lens2, BODY_ACK, SLEEP, rx>>

NextByte ==
    HarnessWriteByte \/ HarnessReadByte \/ Do_readByte \/ Do_writeByte \/ BodyClock

SpecByte == InitFrame /\ [][NextByte]_vars

---------------------------------------------------------------------------
(* Written frames against a body that holds its line low.  The body moves  *)
(* BODY_ACK as it likes until the lens has seen the falling edge that      *)
(* starts a written frame; from then to the end of the frame it never      *)
(* raises the line again, and it clocks each transfer the lens has armed.  *)

\* The lens is in a written frame and has seen its falling edge.
EdgeSeen(m) ==
    /\ Len(m.stack) >= 2
    /\ m.stack[2].fn = "writeBytesChecksum"
    /\ Len(m.log) >= 2

HoldAck ==
    \E v \in Levels :
        /\ v # BODY_ACK
        /\ EdgeSeen(lens) => v = 0
        /\ BODY_ACK' = v
        /\ UNCHANGED <<lens, lens2, SLEEP, rx>>

HoldLowLens ==
    \/ Do_writeBytesChecksum
    \/ Do_writeByte
    \/ Do_waitBodyFall
    \/ Do_waitBodyLow

NextHoldLow == HarnessWrite \/ HoldLowLens \/ HoldAck \/ CoopClock

SpecHoldLow ==
    InitFrame /\ [][NextHoldLow]_vars /\ WF_vars(HoldLowLens) /\ WF_vars(CoopClock)

---------------------------------------------------------------------------
(* Vocabulary of the properties.                                           *)

see0 == <<"see", 0>>
see1 == <<"see", 1>>
dw0  == <<"dw", 0>>
dw1  == <<"dw", 1>>

IsPrefix(s, t) == Len(s) <= Len(t) /\ s = SubSeq(t, 1, Len(s))

RECURSIVE SumTo(_, _)
SumTo(s, n) == IF n = 0 THEN 0 ELSE s[n] + SumTo(s, n - 1)

\* The framed call in progress (the frame above its caller), if any.
ActiveFrame(m) == IF Len(m.stack) >= 2 THEN m.stack[2] ELSE Frame("none", 0)

\* Byte events of a log, in order.
ByteEvents(log) == SelectSeq(log, LAMBDA e : e[1] \in {"rd", "wr"})

\* A log with the byte values blanked: who did what, in which order.
Shape(log) ==
    [k \in 1..Len(log) |->
        IF log[k][1] \in {"rd", "wr"} THEN <<log[k][1], 0>> ELSE log[k]]

LastValue(log) == IF Len(log) = 0 THEN -1 ELSE log[Len(log)][2]

MainPos(m) == m.stack[1].lbl

AtStandby(m) ==
    /\ Len(m.stack) = 1
    /\ m.stack[1].fn = "main"
    /\ Script[MainPos(m)].op = "standby"

---------------------------------------------------------------------------
(* C1: writeBytesChecksum(n, P) writes exactly n+2 bytes, the length n,    *)
(* then P[1..n] in order, then one checksum byte, and every one of these   *)
(* writes comes right after one handshake cycle: a wait on BODY_ACK, then  *)
(* LENS_ACK low, then LENS_ACK high.  (SpecFrame)                          *)

RECURSIVE PayloadCycles(_, _, _)
PayloadCycles(P, k, n) ==
    IF k > n THEN <<>>
    ELSE <<see0, dw0, dw1, <<"wr", P[k]>>>> \o PayloadCycles(P, k + 1, n)

WireOrder(n, P, cs) ==
    <<see1, see0, dw0, dw1, <<"wr", n>>>> \o PayloadCycles(P, 1, n)
        \o <<see0, dw0, dw1, <<"wr", cs>>>>

C1_WriteFrameWire ==
    /\ lens.last.fn = "writeBytesChecksum" =>
          /\ lens.last.log =
                WireOrder(lens.last.nBytes, lens.last.values, LastValue(lens.last.log))
          /\ Len(ByteEvents(lens.last.log)) = lens.last.nBytes + 2
    /\ ActiveFrame(lens).fn = "writeBytesChecksum" =>
          LET f == ActiveFrame(lens) IN
          IsPrefix(lens.log, WireOrder(f.nBytes, f.values, f.checksum))

C1_Witness ==
    /\ lens.last.fn = "writeBytesChecksum"
    /\ lens.last.nBytes = MaxLen
    /\ Len(ByteEvents(lens.last.log)) = MaxLen + 2
    /\ lens.last.values[1] # lens.last.values[MaxLen]

(* C2: the checksum byte writeBytesChecksum sends for a payload of length  *)
(* 1..255 is the sum of the payload bytes mod 256: the length byte is not  *)
(* in it, nothing of an earlier frame is in it, and it wraps.  (SpecFrame) *)

C2_WriteChecksum ==
    (lens.last.fn = "writeBytesChecksum" /\ lens.last.nBytes \in 1..255) =>
        LastValue(lens.last.log) = SumTo(lens.last.values, lens.last.nBytes) % 256

C2_Witness ==
    /\ lens.last.fn = "writeBytesChecksum"
    /\ lens.last.nBytes >= 2
    /\ SumTo(lens.last.values, lens.last.nBytes) > 255
    /\ LastValue(lens.last.log) = SumTo(lens.last.values, lens.last.nBytes) - 256

(* C3: readBytesChecksum(n), n >= 1, makes exactly n byte reads and then   *)
(* exactly one byte write, of the sum mod 256 of all n bytes read.         *)
(* (SpecFrame)                                                             *)

C3_ReadFrameBytes ==
    (lens.last.fn = "readBytesChecksum" /\ lens.last.nBytes >= 1) =>
        LET b == ByteEvents(lens.last.log)
            n == lens.last.nBytes
        IN  /\ Len(b) = n + 1
            /\ \A k \in 1..n : b[k][1] = "rd"
            /\ b[n + 1] = <<"wr", SumTo([k \in 1..n |-> b[k][2]], n) % 256>>

C3_Witness ==
    /\ lens.last.fn = "readBytesChecksum"
    /\ lens.last.nBytes = MaxLen
    /\ LET b == ByteEvents(lens.last.log) IN
           /\ Len(b) = MaxLen + 1
           /\ b[MaxLen][2] = 255
           /\ SumTo([k \in 1..MaxLen |-> b[k][2]], MaxLen) > 255

(* C4: in readBytesChecksum(n), n >= 1, LENS_ACK goes low then high after  *)
(* each of the first n-1 bytes and low only after the last; it stays low   *)
(* until BODY_ACK has been seen high and then low, is raised then, and the *)
(* checksum is written only after BODY_ACK has then been seen high.        *)
(* (SpecFrame)                                                             *)

RECURSIVE ReadCycles(_)
ReadCycles(k) ==
    IF k = 0 THEN <<>> ELSE <<<<"rd", 0>>, dw0, dw1>> \o ReadCycles(k - 1)

ReadOrder(n) ==
    ReadCycles(n - 1) \o <<<<"rd", 0>>, dw0, see1, see0, dw1, see1, <<"wr", 0>>>>

\* LENS_ACK is what the last digitalWrite of the log left.
ReadyFollowsLog(m) ==
    LET w == SelectSeq(m.log, LAMBDA e : e[1] = "dw") IN
    Len(w) > 0 => m.LENS_ACK = w[Len(w)][2]

C4_ReadFrameHandshake ==
    /\ (lens.last.fn = "readBytesChecksum" /\ lens.last.nBytes >= 1) =>
          Shape(lens.last.log) = ReadOrder(lens.last.nBytes)
    /\ (ActiveFrame(lens).fn = "readBytesChecksum" /\ ActiveFrame(lens).nBytes >= 1) =>
          /\ IsPrefix(Shape(lens.log), ReadOrder(ActiveFrame(lens).nBytes))
          /\ ReadyFollowsLog(lens)

\* Inside the falling-edge wait of a 3-byte read, BODY_ACK seen high, ready low.
C4_Witness ==
    /\ ActiveFrame(lens).fn = "readBytesChecksum"
    /\ ActiveFrame(lens).nBytes = MaxLen
    /\ Top(lens).fn = "waitBodyFall"
    /\ Top(lens).lbl = 38
    /\ lens.LENS_ACK = 0
    /\ Len(ByteEvents(lens.log)) = MaxLen

(* C5: readBytesChecksum(1) makes one byte read and goes directly to the   *)
(* falling-edge wait and the checksum reply: LENS_ACK is not driven low    *)
(* then high in between, and the reply is the byte read.  (SpecFrame)      *)

SingleByteOrder(b) == <<<<"rd", b>>, dw0, see1, see0, dw1, see1, <<"wr", b>>>>

C5_ReadOneByte ==
    /\ (lens.last.fn = "readBytesChecksum" /\ lens.last.nBytes = 1) =>
          /\ Len(lens.last.log) > 0
          /\ lens.last.log = SingleByteOrder(lens.last.log[1][2])
    /\ (ActiveFrame(lens).fn = "readBytesChecksum" /\ ActiveFrame(lens).nBytes = 1) =>
          /\ Len(lens.log) > 0 => IsPrefix(lens.log, SingleByteOrder(lens.log[1][2]))
          /\ Len(ByteEvents(lens.log)) = 1 /\ Top(lens).fn # "writeByte" =>
                ~(\E k \in 1..(Len(lens.log) - 1) :
                      lens.log[k] = dw0 /\ lens.log[k + 1] = dw1)

C5_Witness ==
    /\ lens.last.fn = "readBytesChecksum"
    /\ lens.last.nBytes = 1
    /\ lens.last.log = SingleByteOrder(255)

(* C6: when the session writes its 5-byte frame {00,0a,10,c4,09}, the body *)
(* receives the length byte 5, the five payload bytes in that order, and a *)
(* checksum byte.  (SpecCoop)                                              *)

FiveByteFrameSent == lens.last.fn = "writeBytesChecksum" /\ lens.last.nBytes = 5

\* As claimed: the checksum byte is 0xdd.
C6_ChecksumDD == FiveByteFrameSent => rx = <<5, 0, 10, 16, 196, 9, 221>>

\* As the code sends it: the checksum byte is 0xe7.
C6_ChecksumE7 == FiveByteFrameSent => rx = <<5, 0, 10, 16, 196, 9, 231>>

C6_Witness == FiveByteFrameSent /\ Len(rx) = 7 /\ Script[MainPos(lens)].line = 209

(* C7: round trip.  When writeBytesChecksum(n, P) runs against the         *)
(* cooperating body, the body receives n, then P byte for byte, then a     *)
(* checksum equal to the 8-bit sum of the payload bytes it received.       *)
(* (SpecFrameCoop)                                                         *)

C7_RoundTrip ==
    lens.last.fn = "writeBytesChecksum" =>
        LET n == lens.last.nBytes IN
        /\ Len(rx) = n + 2
        /\ rx[1] = n
        /\ \A k \in 1..n : rx[k + 1] = lens.last.values[k]
        /\ rx[n + 2] = SumTo([k \in 1..n |-> rx[k + 1]], n) % 256

C7_Witness ==
    /\ lens.last.fn = "writeBytesChecksum"
    /\ lens.last.nBytes = MaxLen
    /\ Len(rx) = MaxLen + 2
    /\ rx[2] = 255
    /\ rx[MaxLen + 2] = 0

(* C8: the session position only advances, no statement of main takes      *)
(* effect twice, and once the terminal loop is reached the lens stays      *)
(* there and does nothing more: no byte transfer, no write to LENS_ACK, no *)
(* wait, no call of standbyPacket.  (Spec)                                 *)

C8_ForwardThenIdle ==
    [][ /\ MainPos(lens') >= MainPos(lens)
        /\ (Len(lens.stack) = 1 /\ Len(lens'.stack) = 1
                /\ MainPos(lens') = MainPos(lens)) =>
              /\ lens'.log = lens.log
              /\ lens'.LENS_ACK = lens.LENS_ACK
              /\ lens'.SPCR = lens.SPCR
        /\ AtStandby(lens) =>
              /\ lens'.stack = lens.stack
              /\ lens'.log = lens.log
              /\ lens'.last = lens.last
              /\ lens'.LENS_ACK = lens.LENS_ACK
              /\ lens'.MISO = lens.MISO
              /\ lens'.ret = lens.ret
      ]_vars

\* In the terminal loop, with a byte the body clocked in left unread.
C8_Witness == AtStandby(lens) /\ lens.SPIF /\ lens.LENS_ACK = 1

(* C9: with the cooperating body, under fairness, the lens gets through    *)
(* the power-on handshake and the first 4-byte frame read with its         *)
(* checksum reply, and no wait on a line blocks forever.  (SpecCoop)       *)

InLineWait(m) ==
    \/ Awaited(m) \in Levels
    \/ Top(m).fn = "main" /\ Script[Top(m).lbl].op = "pollSleep"

FirstFrameDone ==
    /\ Len(lens.stack) = 1
    /\ Script[MainPos(lens)].line = 185
    /\ lens.last.fn = "readBytesChecksum"
    /\ lens.last.nBytes = 4
    /\ Len(rx) = 1

C9_CooperatingBodyCompletes ==
    /\ <>FirstFrameDone
    /\ InLineWait(lens) ~> ~InLineWait(lens)

C9_Witness == FirstFrameDone /\ rx = <<0>> /\ lens.LENS_ACK = 1

(* C10: received data never influences control.  Two runs given the same   *)
(* line levels and clocked at the same steps, with different byte values,  *)
(* are always at the same statement with the same line outputs and the     *)
(* same order of waits, ready writes and byte transfers; they differ only  *)
(* in the bytes read and the checksum replies.  (SpecPair)                 *)

\* A frame without the data it carries.
ControlOfFrame(m, k) ==
    LET f == m.stack[k] IN
    [fn |-> f.fn, lbl |-> f.lbl, ph |-> f.ph, nBytes |-> f.nBytes, i |-> f.i,
     values |-> f.values,
     checksum |-> IF f.fn = "readBytesChecksum" THEN 0 ELSE f.checksum,
     value |-> IF k > 1 /\ m.stack[k - 1].fn = "readBytesChecksum"
               THEN 0 ELSE f.value]

\* A log without the bytes read; inside a read frame, without the reply too.
ControlOfLog(log, reading) ==
    [k \in 1..Len(log) |->
        IF log[k][1] = "rd" \/ (reading /\ log[k][1] = "wr")
        THEN <<log[k][1], 0>> ELSE log[k]]

ControlOf(m) ==
    [stack |-> [k \in 1..Len(m.stack) |-> ControlOfFrame(m, k)],
     LENS_ACK |-> m.LENS_ACK, MISO |-> m.MISO, SPIF |-> m.SPIF, SPCR |-> m.SPCR,
     log |-> ControlOfLog(m.log, ActiveFrame(m).fn = "readBytesChecksum"),
     last |-> [fn |-> m.last.fn, nBytes |-> m.last.nBytes, values |-> m.last.values,
               log |-> ControlOfLog(m.last.log, m.last.fn = "readBytesChecksum")]]

C10_DataIndependentControl == ControlOf(lens) = ControlOf(lens2)

\* Both runs idle at the end although their last frames carried different bytes.
C10_Witness ==
    /\ AtStandby(lens)
    /\ AtStandby(lens2)
    /\ LastValue(lens.last.log) # LastValue(lens2.last.log)

(* C11: readBytesChecksum(0).  As claimed, the loop bound nBytes - 1 wraps *)
(* in 8 bits and the call makes more per-byte read/toggle iterations than  *)
(* readBytesChecksum(1).  As the code behaves, nBytes - 1 is the int -1,   *)
(* the per-byte loop runs zero times, and the call does what               *)
(* readBytesChecksum(1) does: one read, then the reply.  (SpecFrame)       *)

ReadsIn(log) == Len(SelectSeq(log, LAMBDA e : e[1] = "rd"))

\* As claimed: more reads than the single read of readBytesChecksum(1).
C11_ZeroLengthWraps ==
    (lens.last.fn = "readBytesChecksum" /\ lens.last.nBytes = 0) =>
        ReadsIn(lens.last.log) > 1

C11_ZeroLengthReadsOne ==
    /\ (lens.last.fn = "readBytesChecksum" /\ lens.last.nBytes = 0) =>
          /\ Len(lens.last.log) > 0
          /\ lens.last.log = SingleByteOrder(lens.last.log[1][2])
    /\ (ActiveFrame(lens).fn = "readBytesChecksum" /\ ActiveFrame(lens).nBytes = 0) =>
          /\ ActiveFrame(lens).i = 0
          /\ Len(lens.log) > 0 => IsPrefix(lens.log, SingleByteOrder(lens.log[1][2]))

C11_Witness ==
    /\ lens.last.fn = "readBytesChecksum"
    /\ lens.last.nBytes = 0
    /\ lens.last.log = SingleByteOrder(1)

(* C12: the mid-session transport reset is transparent to framing.  SPCR   *)
(* changes only in setup and in the two statements of the reset (once      *)
(* each, as the position only advances); outside the reset SPCR is the     *)
(* configuration of setup (enabled, LSB first, slave, CPOL, CPHA); the     *)
(* reset statements change nothing else and go on to the next statement;   *)
(* and the readBytesChecksum(4) that follows makes 4 reads and replies     *)
(* with their 8-bit sum.  (Spec)                                           *)

LineOf(m) == Script[MainPos(m)].line

InMain(m) == Len(m.stack) = 1 /\ m.stack[1].fn = "main"

SetupDone(m) == MainPos(m) >= 3

C12_ConfigKept ==
    SetupDone(lens) =>
        IF InMain(lens) /\ LineOf(lens) = 224
        THEN lens.SPCR = {}
        ELSE lens.SPCR = {"SPE", "DORD", "CPOL", "CPHA"}

C12_ResetStep ==
    lens'.SPCR # lens.SPCR =>
        /\ InMain(lens) /\ InMain(lens')
        /\ LineOf(lens) \in {164, 223, 224}
        /\ MainPos(lens') = MainPos(lens) + 1
        /\ lens'.LENS_ACK = lens.LENS_ACK
        /\ lens'.log = lens.log
        /\ lens'.last = lens.last
        /\ lens'.SPDR = lens.SPDR
        /\ lens'.SPIF = lens.SPIF
        /\ LineOf(lens) = 224 => LineOf(lens') = 225

\* Back in main after the read of line 225.
AfterResetRead(m) == InMain(m) /\ LineOf(m) = 235

C12_ReadAfterReset ==
    AfterResetRead(lens) =>
        LET b == ByteEvents(lens.last.log) IN
        /\ lens.last.fn = "readBytesChecksum"
        /\ lens.last.nBytes = 4
        /\ Len(b) = 5
        /\ \A k \in 1..4 : b[k][1] = "rd"
        /\ b[5] = <<"wr", (b[1][2] + b[2][2] + b[3][2] + b[4][2]) % 256>>
        /\ Shape(lens.last.log) = ReadOrder(4)

C12_ResetTransparent ==
    /\ []C12_ConfigKept
    /\ [][C12_ResetStep]_vars
    /\ []C12_ReadAfterReset

C12_Witness ==
    /\ AfterResetRead(lens)
    /\ lens.SPCR = {"SPE", "DORD", "CPOL", "CPHA"}
    /\ LastValue(lens.last.log) = 254

(* C13: no wait has a timeout or another way out.  While the line a wait   *)
(* polls is at the level that does not satisfy it (SLEEP low in the first  *)
(* loop of main; BODY_ACK at the wrong level in a waitBody function), a    *)
(* step leaves the lens in the same statement, writes nothing to LENS_ACK  *)
(* and transfers no byte.  (Spec)                                          *)

Unsatisfied(m, ack, sleep) ==
    LET f == Top(m) IN
    \/ f.fn = "main" /\ Script[f.lbl].op = "pollSleep" /\ sleep = 0
    \/ f.fn = "waitBodyFall" /\ f.lbl = 37 /\ ack = 0
    \/ f.fn = "waitBodyFall" /\ f.lbl = 38 /\ ack = 1
    \/ f.fn = "waitBodyRise" /\ f.lbl = 44 /\ ack = 1
    \/ f.fn = "waitBodyRise" /\ f.lbl = 45 /\ ack = 0
    \/ f.fn = "waitBodyLow"  /\ f.lbl = 52 /\ ack = 1
    \/ f.fn = "waitBodyHigh" /\ f.lbl = 59 /\ ack = 0

C13_WaitsNeverGiveUp ==
    [][ Unsatisfied(lens, BODY_ACK, SLEEP) =>
          /\ lens'.stack = lens.stack
          /\ lens'.log = lens.log
          /\ lens'.last = lens.last
          /\ lens'.LENS_ACK = lens.LENS_ACK
          /\ lens'.MISO = lens.MISO
          /\ lens'.ret = lens.ret
      ]_vars

\* Held in the falling-edge wait of a read frame while the body clocked a byte.
C13_Witness ==
    /\ Unsatisfied(lens, BODY_ACK, SLEEP)
    /\ Top(lens).fn = "waitBodyFall"
    /\ Top(lens).lbl = 38
    /\ ActiveFrame(lens).fn = "readBytesChecksum"
    /\ lens.SPIF

(* C14: start-up ordering.  Up to the first readBytesChecksum(4) the lens  *)
(* does, in this order and nothing else: sees SLEEP asserted, sees         *)
(* BODY_ACK high, drives LENS_ACK high then low (the presence pulse), sees *)
(* BODY_ACK low then high, raises LENS_ACK; no byte is transferred and     *)
(* LENS_ACK is not written before SLEEP and BODY_ACK were seen.  (Spec)    *)

StartUpOrder == <<<<"pwr", 1>>, see1, dw1, dw0, see0, see1, dw1>>

\* main has not yet called the read of line 183.
BeforeFirstFrame(m) == LineOf(m) <= 183

C14_StartUpOrder ==
    BeforeFirstFrame(lens) =>
        /\ IsPrefix(lens.log, StartUpOrder)
        /\ ByteEvents(lens.log) = <<>>
        /\ Len(lens.log) < 3 => lens.LENS_ACK = 0
        /\ ReadyFollowsLog(lens)
        /\ (InMain(lens) /\ LineOf(lens) = 183) => lens.log = StartUpOrder

\* About to call the first read, the whole start-up sequence behind it.
C14_Witness ==
    /\ InMain(lens)
    /\ LineOf(lens) = 183
    /\ lens.log = StartUpOrder
    /\ lens.LENS_ACK = 1

(* C15: the frames of the session.  Every frame main reads has length 4.   *)
(* As claimed, every frame it writes has length 5 or 21 and carries the    *)
(* fixed payload of that length.  As the code behaves, line 245 also       *)
(* writes a frame of length 2: the first two bytes of the 21-byte payload. *)
(* (Spec)                                                                  *)

Payload5 == <<0, 10, 16, 196, 9>>

Payload21 == <<0, 0, 0, 1, 16, 0, 0, 65, 65, 65, 50, 52, 51, 56, 52, 49,
               0, 0, 0, 1, 17>>

\* Payload bytes a completed write frame put on the wire.
PayloadWritten(log) ==
    LET b == ByteEvents(log) IN [k \in 1..(Len(b) - 2) |-> b[k + 1][2]]

ReadFramesAre4 == ActiveFrame(lens).fn = "readBytesChecksum" => ActiveFrame(lens).nBytes = 4

\* As claimed: lengths 5 and 21 only.
C15_WriteLengths5And21 ==
    /\ ReadFramesAre4
    /\ ActiveFrame(lens).fn = "writeBytesChecksum" =>
          \/ ActiveFrame(lens).nBytes = 5 /\ ActiveFrame(lens).values = Payload5
          \/ ActiveFrame(lens).nBytes = 21 /\ ActiveFrame(lens).values = Payload21

C15_WriteLengths5And21And2 ==
    /\ ReadFramesAre4
    /\ ActiveFrame(lens).fn = "writeBytesChecksum" =>
          \/ ActiveFrame(lens).nBytes = 5 /\ ActiveFrame(lens).values = Payload5
          \/ ActiveFrame(lens).nBytes = 21 /\ ActiveFrame(lens).values = Payload21
          \/ ActiveFrame(lens).nBytes = 2 /\ ActiveFrame(lens).values = Payload21
    /\ lens.last.fn = "readBytesChecksum" => lens.last.nBytes = 4
    /\ lens.last.fn = "writeBytesChecksum" =>
          /\ lens.last.nBytes \in {5, 21, 2}
          /\ PayloadWritten(lens.last.log) =
                IF lens.last.nBytes = 5 THEN Payload5
                ELSE SubSeq(Payload21, 1, lens.last.nBytes)

\* The frame of line 245 has gone out: length 2, payload 00 00.
C15_Witness ==
    /\ lens.last.fn = "writeBytesChecksum"
    /\ lens.last.nBytes = 2
    /\ PayloadWritten(lens.last.log) = <<0, 0>>
    /\ LineOf(lens) = 247

(* C16: the raw byte.  Outside the frames exactly one byte goes out in the *)
(* session, the 0x00 of line 197: after the first read frame has returned  *)
(* and before the second one is called, with no length byte before it and  *)
(* no checksum byte after it, and only after ready was driven low, the     *)
(* acknowledgment line seen low, ready raised and a rising edge of the     *)
(* acknowledgment line seen (lines 192-195).  (Spec)                       *)

\* Lines 185-202: everything between the two read frames.
RawByteOrder ==
    << see1, see0, dw0, see0, see1, dw1,
       dw0, see0, dw1, see0, see1, <<"wr", 0>>,
       see0, dw0, see0, see1, dw1 >>

OutsideFrames(m) ==
    ActiveFrame(m).fn \notin {"readBytesChecksum", "writeBytesChecksum", "standbyPacket"}

C16_RawByteOnce ==
    /\ OutsideFrames(lens) /\ ByteEvents(lens.log) # <<>> =>
          /\ ByteEvents(lens.log) = << <<"wr", 0>> >>
          /\ IsPrefix(lens.log, RawByteOrder)
          /\ lens.last.fn = "readBytesChecksum"
          /\ LineOf(lens) \in 199..204
    /\ ActiveFrame(lens).fn = "writeByte" =>
          /\ ActiveFrame(lens).value = 0
          /\ LineOf(lens) = 199
          /\ lens.last.fn = "readBytesChecksum"
          /\ Len(lens.log) \in {11, 12}
          /\ IsPrefix(lens.log, RawByteOrder)
    /\ InMain(lens) /\ LineOf(lens) = 204 => lens.log = RawByteOrder
    /\ InMain(lens) /\ LineOf(lens) <= 197 => ByteEvents(lens.log) = <<>>

\* The raw byte has gone out and the second read frame is about to start.
C16_Witness ==
    /\ InMain(lens)
    /\ LineOf(lens) = 204
    /\ lens.log = RawByteOrder
    /\ lens.SPDR = 255
    /\ lens.MISO = "OUTPUT"

(* C17: writeByte(v), for every v.  The register is loaded with v (line    *)
(* 83) while the data line is still as it was, the data line is switched   *)
(* to output only by the statement after that (line 87), the function goes *)
(* past its spin loop only with the transfer-complete flag set, and it     *)
(* returns only from line 94, leaving 0xFF, never 0x00, in the register.   *)
(* (SpecByte)                                                              *)

InWriteByte(m, l) == Top(m).fn = "writeByte" /\ Top(m).lbl = l

Returned(m, n) == Len(n.stack) < Len(m.stack)

C17_WriteByteSteps ==
    [][ Top(lens).fn = "writeByte" /\ lens'.stack # lens.stack =>
          /\ InWriteByte(lens, 83) =>
                /\ InWriteByte(lens', 87)
                /\ lens'.SPDR = Top(lens).value
                /\ lens'.MISO = lens.MISO
          /\ InWriteByte(lens, 87) =>
                /\ InWriteByte(lens', 90)
                /\ lens'.MISO = "OUTPUT"
                /\ lens'.SPDR = lens.SPDR
          /\ InWriteByte(lens, 90) => InWriteByte(lens', 94) /\ lens.SPIF
          /\ lens'.MISO # lens.MISO => InWriteByte(lens, 87)
          /\ Returned(lens, lens') =>
                /\ InWriteByte(lens, 94)
                /\ lens'.SPDR = 255
                /\ lens'.SPDR # 0
                /\ ~lens'.SPIF
      ]_vars

\* writeByte(0) has returned to its caller after a readByte had left the
\* data line an input.
C17_Witness ==
    /\ Running("harness")
    /\ lens.log = << <<"wr", 0>> >>
    /\ lens.SPDR = 255
    /\ lens.MISO = "OUTPUT"
    /\ lens.ret = 1

(* C18: the edge waits look at the line only after they were called.       *)
(* waitBodyRise starts at its first poll, leaves it only on seeing the     *)
(* line low, and returns only from its second poll on seeing the line      *)
(* high; waitBodyFall the same with high, then low.  So a lens that enters *)
(* waitBodyRise while the body already holds the line high stays in the    *)
(* first poll for as long as the line stays high: forever, if the body     *)
(* never lowers it.  (Spec)                                                *)

InWait(m, fn, l) == Top(m).fn = fn /\ Top(m).lbl = l

Entered(m, n, fn) == Len(n.stack) > Len(m.stack) /\ Top(n).fn = fn

\* The rising edge came too early: first poll of waitBodyRise, line high.
RiseBlocked == InWait(lens, "waitBodyRise", 44) /\ BODY_ACK = 1

C18_EdgeWaitStep ==
    /\ Entered(lens, lens', "waitBodyRise") => InWait(lens', "waitBodyRise", 44)
    /\ Entered(lens, lens', "waitBodyFall") => InWait(lens', "waitBodyFall", 37)
    /\ Top(lens).fn = "waitBodyRise" /\ lens'.stack # lens.stack =>
          \/ /\ InWait(lens, "waitBodyRise", 44)
             /\ BODY_ACK = 0
             /\ InWait(lens', "waitBodyRise", 45)
             /\ lens'.log = Append(lens.log, see0)
          \/ /\ InWait(lens, "waitBodyRise", 45)
             /\ BODY_ACK = 1
             /\ Returned(lens, lens')
             /\ lens'.log = Append(lens.log, see1)
    /\ Top(lens).fn = "waitBodyFall" /\ lens'.stack # lens.stack =>
          \/ /\ InWait(lens, "waitBodyFall", 37)
             /\ BODY_ACK = 1
             /\ InWait(lens', "waitBodyFall", 38)
             /\ lens'.log = Append(lens.log, see1)
          \/ /\ InWait(lens, "waitBodyFall", 38)
             /\ BODY_ACK = 0
             /\ Returned(lens, lens')
             /\ lens'.log = Append(lens.log, see0)
    /\ RiseBlocked => lens'.stack = lens.stack /\ lens'.log = lens.log

C18_EdgeAfterCall ==
    /\ [][C18_EdgeWaitStep]_vars
    /\ [](RiseBlocked /\ [](BODY_ACK = 1) => []RiseBlocked)

\* Line 178 reached with the line high: the presence pulse is over, and the
\* lens waits for a rising edge that has already happened.
C18_Witness ==
    /\ RiseBlocked
    /\ LineOf(lens) = 181
    /\ lens.log = << <<"pwr", 1>>, see1, dw1, dw0 >>
    /\ lens.LENS_ACK = 0

(* C19: ready is high whenever a byte moves.  In every state of the        *)
(* session in which readByte or writeByte is executing, from its first     *)
(* statement on, LENS_ACK is high: in a frame, for the checksum reply of a *)
(* read frame and for the raw byte of line 197 alike.  (Spec)              *)

InByteTransfer(m) == Top(m).fn \in {"readByte", "writeByte"}

C19_ReadyHighAtTransfer == InByteTransfer(lens) => lens.LENS_ACK = 1

\* The checksum reply of a read frame is about to be loaded.
C19_Witness ==
    /\ InWriteByte(lens, 83)
    /\ ActiveFrame(lens).fn = "readBytesChecksum"
    /\ Len(lens.log) > 0
    /\ lens.LENS_ACK = 1

(* C20: in a written frame only the length byte waits for an edge.  The    *)
(* frame calls waitBodyFall once, before its first byte, and waitBodyLow   *)
(* before every later byte.  Against a body that keeps BODY_ACK low from   *)
(* the falling edge on and clocks every armed transfer, the lens is never  *)
(* held up by the line: the frame runs to its end, and the body has then   *)
(* received the length, all n payload bytes and the checksum, the lens     *)
(* never having seen the line high again.  (SpecHoldLow)                   *)

\* The levels the lens saw, in order.
Seen(log) == SelectSeq(log, LAMBDA e : e[1] = "see")

WriteFrameDone == lens.last.fn = "writeBytesChecksum"

C20_State ==
    /\ EdgeSeen(lens) =>
          /\ BODY_ACK = 0
          /\ Top(lens).fn # "waitBodyFall"
          /\ Step(lens, 0, SLEEP) # lens \/ AwaitsClock(lens)
    /\ ActiveFrame(lens).fn = "writeBytesChecksum" =>
          /\ Top(lens).fn = "waitBodyFall" => ByteEvents(lens.log) = <<>>
          /\ Top(lens).fn = "waitBodyLow" => Len(ByteEvents(lens.log)) >= 1
    /\ WriteFrameDone =>
          /\ Len(rx) = lens.last.nBytes + 2
          /\ rx[1] = lens.last.nBytes
          /\ SubSeq(rx, 2, lens.last.nBytes + 1) = lens.last.values
          /\ rx[Len(rx)] = U8(SumTo(lens.last.values, lens.last.nBytes))
          /\ Seen(lens.last.log) =
                <<see1>> \o [k \in 1..(lens.last.nBytes + 2) |-> see0]

C20_HeldLowStillCompletes ==
    /\ []C20_State
    /\ EdgeSeen(lens) ~> WriteFrameDone

\* A frame of the greatest length went out whole over a line held low.
C20_Witness ==
    /\ WriteFrameDone
    /\ lens.last.nBytes = MaxLen
    /\ Len(rx) = MaxLen + 2
    /\ rx[2] = 255
    /\ BODY_ACK = 0

=============================================================================
